---- MODULE Spec2Model ----
(***************************************************************************)
(* deckit: the Check and ZodValidate decorators, formDataToObject, and the *)
(* calls of decorated methods.                                             *)
(*                                                                         *)
(* A decorated method is a stack of wrapper layers (outermost first) over  *)
(* the method body.  A call walks the stack one frame at a time; every     *)
(* await of the source is a step boundary.                                 *)
(*                                                                         *)
(* Spec runs decorated methods, SpecForm runs formDataToObject on its own, *)
(* SpecCli runs the command line tool (deckit make:controller).            *)
(***************************************************************************)
EXTENDS Integers, Sequences, FiniteSets, TLC

VARIABLES proto, stage, applied, calls, flat, files, dirs, proc

\* flat is the state of one use of formDataToObject on its own.
formVars == <<flat>>
\* The project directory the command line tool works in (files, dirs) and
\* the last run of the tool (proc).
cliVars == <<files, dirs, proc>>
deckVars == <<proto, stage, applied, calls>>
vars == <<proto, stage, applied, calls, formVars, cliVars>>

(***************************************************************************)
(* Bounds                                                                  *)
(***************************************************************************)
MaxDecorations == 2
MaxPairs == 2
MaxFields == 3

(***************************************************************************)
(* JavaScript values.  Every kind of value has its own field names, so any *)
(* two values can be compared.                                             *)
(***************************************************************************)
Undefined == [t |-> "undefined"]
Null == [t |-> "null"]
JsTrue == [t |-> "boolean", b |-> TRUE]
JsFalse == [t |-> "boolean", b |-> FALSE]
Num(n) == [t |-> "number", n |-> n]
NaN == [t |-> "number", nan |-> TRUE]
Str(s) == [t |-> "string", s |-> s]
Error(m) == [t |-> "error", message |-> m]
Instance(cls) == [t |-> "instance", cls |-> cls]
EventRef(c) == [t |-> "event", id |-> c]

\* Outcome of a function call or of a settled promise.
None == [k |-> "none"]
Return(v) == [k |-> "return", v |-> v]
Throw(e) == [k |-> "throw", e |-> e]

\* args[0] of the source: undefined when the argument list is empty.
FirstArg(args) == IF Len(args) > 0 THEN args[1] ELSE Undefined

(***************************************************************************)
(* Method names are character sequences, so that startsWith('_') is        *)
(* computed and not looked up.                                             *)
(***************************************************************************)
constructor == <<"c", "o", "n", "s", "t", "r", "u", "c", "t", "o", "r">>
publicMethod1 == <<"m", "1">>
publicMethod2 == <<"m", "_", "2">>
_privateMethod == <<"_", "p">>
contextValue == <<"v">>

startsWith(name, ch) == Len(name) > 0 /\ name[1] = ch

Classes == {"BaseClass", "DerivedClass"}

\* class DerivedClass extends BaseClass
HasParent(cls) == cls = "DerivedClass"
Parent(cls) == "BaseClass"

\* The body of a method as written in the class, before any decorator.
Method(cls, name) == [kind |-> "function", layers |-> <<>>, home |-> cls, name |-> name]
Accessor(cls, name) == [kind |-> "accessor", layers |-> <<>>, home |-> cls, name |-> name]

\* The own properties of each class's prototype as the class body defines
\* them.  DerivedClass overrides publicMethod2 and inherits publicMethod1.
ClassBody(cls) ==
    IF cls = "BaseClass"
    THEN (constructor :> Method(cls, constructor))
         @@ (publicMethod1 :> Method(cls, publicMethod1))
         @@ (publicMethod2 :> Method(cls, publicMethod2))
         @@ (_privateMethod :> Method(cls, _privateMethod))
         @@ (contextValue :> Accessor(cls, contextValue))
    ELSE (constructor :> Method(cls, constructor))
         @@ (publicMethod2 :> Method(cls, publicMethod2))

\* Property lookup along the prototype chain.
RECURSIVE HasProperty(_, _, _)
HasProperty(p, cls, name) ==
    \/ name \in DOMAIN p[cls]
    \/ HasParent(cls) /\ HasProperty(p, Parent(cls), name)

RECURSIVE Lookup(_, _, _)
Lookup(p, cls, name) ==
    IF name \in DOMAIN p[cls] THEN p[cls][name] ELSE Lookup(p, Parent(cls), name)

(***************************************************************************)
(* Decorators                                                              *)
(***************************************************************************)
NoCheck == "none"
Predicates == {"A", "B"}
NoCallback == "none"
Callbacks == {"onFailureCallback"}
NoSchema == "none"
Schemas == {"transformSchema"}

\* A wrapper layer: the closure a decorator installs.  mode and on record
\* which branch of Check installed it and on which class.
CheckLayer(check, mode, cls) ==
    [kind |-> "Check", mode |-> mode, on |-> cls, check |-> check,
     schema |-> NoSchema, onFailure |-> NoCallback]
ZodValidateLayer(schema, onFailure, cls) ==
    [kind |-> "ZodValidate", mode |-> "method", on |-> cls, check |-> NoCheck,
     schema |-> schema, onFailure |-> onFailure]

\* Mutant: the closure is built but never stored in the descriptor.
WrapDropped(member, layer) == member

\* Mutant: the new closure is put below the closures already there.
WrapInnermost(member, layer) == [member EXCEPT !.layers = @ \o <<layer>>]

\* descriptor.value = async function (...args) { ... original ... }: the new
\* closure becomes the outermost layer of the property.
Wrap(member, layer) == [member EXCEPT !.layers = <<layer>> \o @]

\* Mutant: methodName.includes('_') in place of startsWith('_').
IsSkippedIncludes(methodName) ==
    methodName = constructor \/ \E i \in 1..Len(methodName) : methodName[i] = "_"

\* if (methodName === 'constructor' || methodName.startsWith('_')) return;
IsSkipped(methodName) == methodName = constructor \/ startsWith(methodName, "_")

\* typeof methodDescriptor.value === 'function'
IsFunction(member) == member.kind = "function"

\* Mutant: the class branch leaves alone a method that already carries a
\* wrapper.
CheckSkipsWrapped(p, check, target, propertyKey) ==
    IF Len(propertyKey) > 0 /\ propertyKey \in DOMAIN p[target]
    THEN [p EXCEPT ![target][propertyKey] = Wrap(@, CheckLayer(check, "method", target))]
    ELSE [p EXCEPT ![target] =
             [methodName \in DOMAIN p[target] |->
                 IF /\ ~IsSkipped(methodName) /\ IsFunction(p[target][methodName])
                    /\ p[target][methodName].layers = <<>>
                 THEN Wrap(p[target][methodName], CheckLayer(check, "class", target))
                 ELSE p[target][methodName]]]

\* Mutant: for (const methodName in prototype) in place of
\* Object.getOwnPropertyNames(prototype): the properties the class inherits
\* are wrapped as well and defined on its own prototype.
CheckInherited(p, check, target, propertyKey) ==
    IF Len(propertyKey) > 0 /\ propertyKey \in DOMAIN p[target]
    THEN [p EXCEPT ![target][propertyKey] = Wrap(@, CheckLayer(check, "method", target))]
    ELSE LET names == DOMAIN p[target]
                        \cup (IF HasParent(target) THEN DOMAIN p[Parent(target)] ELSE {})
         IN  [p EXCEPT ![target] =
                 [methodName \in names |->
                     IF ~IsSkipped(methodName) /\ IsFunction(Lookup(p, target, methodName))
                     THEN Wrap(Lookup(p, target, methodName), CheckLayer(check, "class", target))
                     ELSE Lookup(p, target, methodName)]]

\* The function Check(check) returns, applied to (target, propertyKey,
\* descriptor).  propertyKey is <<>> when the decorator is applied to a
\* class; the descriptor is the own property propertyKey of the prototype.
Check(p, check, target, propertyKey) ==
    IF Len(propertyKey) > 0 /\ propertyKey \in DOMAIN p[target]
    THEN [p EXCEPT ![target][propertyKey] = Wrap(@, CheckLayer(check, "method", target))]
    ELSE [p EXCEPT ![target] =
             [methodName \in DOMAIN p[target] |->
                 IF ~IsSkipped(methodName) /\ IsFunction(p[target][methodName])
                 THEN Wrap(p[target][methodName], CheckLayer(check, "class", target))
                 ELSE p[target][methodName]]]

\* The function ZodValidate(schema, onFailure) returns, applied to
\* (target, propertyKey, descriptor).
ZodValidate(p, schema, onFailure, target, propertyKey) ==
    [p EXCEPT ![target][propertyKey] = Wrap(@, ZodValidateLayer(schema, onFailure, target))]

\* A class decorator returns target: the class binding, and so what `new`
\* runs, is the class's own constructor.
ClassBinding(cls) == Method(cls, constructor)

(***************************************************************************)
(* Form data and formDataToObject                                          *)
(***************************************************************************)
\* A form entry's value is a string or a File; File stands for any File.
File == "File"
Keys == {"count", "toString", "2", "10"}
Vals == {"5", "x", File}
Pairs == Keys \X Vals
Forms == UNION {[1..n -> Pairs] : n \in 0..MaxFields}

\* The bodies of the requests of the calls: the keys of the tests, one value.
RequestKeys == {"count", "toString"}
RequestForms == UNION {[1..n -> RequestKeys \X {"5"}] : n \in 0..MaxPairs}

\* value.toString(): a string is itself, a File is "[object File]".
toString(value) == IF value = File THEN "[object File]" ELSE value

\* The keys that are canonical array indices, with their numeric values: an
\* object lists these own keys first, in ascending numeric order, and its
\* other string keys after them in the order they were created.
ArrayIndex == ("2" :> 2) @@ ("10" :> 10)
IsArrayIndex(key) == key \in DOMAIN ArrayIndex

\* Properties every object literal inherits from Object.prototype; reading
\* one through object[key] yields the inherited function, not undefined.
ObjectPrototypeKeys == {"toString"}
InheritedFunction(key) == "[Function: " \o key \o "]"

\* An object is the sequence of its own entries in insertion order; an entry
\* holds a scalar string (isArray = FALSE, one element) or an array.
Scalar(key, value) == [key |-> key, isArray |-> FALSE, vals |-> <<value>>]
Array(key, values) == [key |-> key, isArray |-> TRUE, vals |-> values]

OwnIndex(object, key) ==
    IF \E i \in 1..Len(object) : object[i].key = key
    THEN CHOOSE i \in 1..Len(object) : object[i].key = key
    ELSE 0

\* Mutant: every new own key is listed after the keys already there.
SetPropertyAppend(object, entry) ==
    IF OwnIndex(object, entry.key) > 0
    THEN [object EXCEPT ![OwnIndex(object, entry.key)] = entry]
    ELSE Append(object, entry)

\* object[key] = entry: replaces an own property in place; a new array-index
\* key goes among the array-index keys by numeric value, any other new key
\* goes last.
SetProperty(object, entry) ==
    IF OwnIndex(object, entry.key) > 0
    THEN [object EXCEPT ![OwnIndex(object, entry.key)] = entry]
    ELSE IF IsArrayIndex(entry.key)
    THEN LET Smaller(e) == IsArrayIndex(e.key) /\ ArrayIndex[e.key] < ArrayIndex[entry.key]
             NotSmaller(e) == ~Smaller(e)
         IN  SelectSeq(object, Smaller) \o <<entry>> \o SelectSeq(object, NotSmaller)
    ELSE Append(object, entry)

\* One iteration of formData.forEach((value, key) => ...).
forEachBody(object, key, value) ==
    LET i == OwnIndex(object, key) IN
    IF i > 0
    THEN \* existing !== undefined, an own property
         IF object[i].isArray
         THEN SetProperty(object, Array(key, Append(object[i].vals, toString(value))))
         ELSE SetProperty(object, Array(key, <<object[i].vals[1], toString(value)>>))
    ELSE IF key \in ObjectPrototypeKeys
    THEN \* existing is the inherited function: not undefined, not an array
         SetProperty(object, Array(key, <<InheritedFunction(key), toString(value)>>))
    ELSE SetProperty(object, Scalar(key, toString(value)))

RECURSIVE forEach(_, _)
forEach(object, formData) ==
    IF formData = <<>> THEN object
    ELSE forEach(forEachBody(object, Head(formData)[1], Head(formData)[2]), Tail(formData))

formDataToObject(formData) == forEach(<<>>, formData)

(***************************************************************************)
(* The schema (zod): transformSchema of the tests, restricted to count.    *)
(*   z.object({ count: z.string().transform((val) => parseInt(val) * 2) }) *)
(***************************************************************************)
Numerals == ("5" :> 5)
parseInt(val) == IF val \in DOMAIN Numerals THEN Num(Numerals[val]) ELSE NaN
Times2(x) == IF x = NaN THEN NaN ELSE Num(x.n * 2)

Issue(code, path, received) == [code |-> code, path |-> path, received |-> received]

\* A ZodError; hasErrors tells whether this zod exposes the issue list under
\* .errors as well (zod 3 does, zod 4 does not).
ZodError(issues, hasErrors) ==
    [t |-> "ZodError", issues |-> issues,
     errors |-> [defined |-> hasErrors, items |-> IF hasErrors THEN issues ELSE <<>>]]

Success(data) == [success |-> TRUE, data |-> data, error |-> Undefined]
Failure(error) == [success |-> FALSE, data |-> Undefined, error |-> error]

\* schema.safeParse(data): unknown keys are stripped, count is transformed.
safeParse(schema, data, hasErrors) ==
    LET i == OwnIndex(data, "count") IN
    IF i = 0
    THEN Failure(ZodError(<<Issue("invalid_type", <<"count">>, "undefined")>>, hasErrors))
    ELSE IF data[i].isArray
    THEN Failure(ZodError(<<Issue("invalid_type", <<"count">>, "array")>>, hasErrors))
    ELSE Success([t |-> "object", count |-> Times2(parseInt(data[i].vals[1]))])

\* fail(status, data) of @sveltejs/kit
fail(status, data) == [t |-> "ActionFailure", status |-> status, data |-> data]

(***************************************************************************)
(* Calls                                                                   *)
(***************************************************************************)
CallIds == {1, 2}
\* The calls that run under Spec: one call at a time.
SequentialCalls == {1}

\* Argument lists of a call: instance.testMethod() and
\* testMethod(event, 'extra', 42).
ArgLists(c) == {<<>>, <<EventRef(c), Str("extra"), Num(42)>>}

\* What a predicate may do: return a value or throw, directly or through a
\* promise it returns.
CheckValues == {JsTrue, JsFalse, Undefined, Num(1), Str("halt"), fail(401, Str("Unauthorized"))}
CheckSettlements == {Return(v) : v \in CheckValues} \cup {Throw(Error("Unauthorized"))}
CheckOutcomes == [promise : BOOLEAN, settle : CheckSettlements]

\* What the method body returns: a value made of its receiver and arguments
\* (`${this.value}: ${arg1} - ${arg2}` in the tests).
MethodResult(member, self, args) ==
    [t |-> "result", home |-> member.home, name |-> member.name, self |-> self, args |-> args]
BodyOutcomes(member, self, args) ==
    {Return(MethodResult(member, self, args)), Throw(Error("handler failed"))}

\* The record of one frame of a call: what the frame was invoked with and
\* what it did.
NoFrame ==
    [entered |-> 0, args |-> <<>>, self |-> Undefined, seenValidated |-> Undefined,
     seenBodyUsed |-> FALSE,
     checkCalls |-> 0, checkArgs |-> <<>>, checkReturned |-> None, checkResult |-> None,
     cloneCalls |-> 0, formDataCalls |-> 0, transport |-> None,
     parsed |-> FALSE, formData |-> <<>>,
     result |-> Failure(Undefined),
     onFailureCalls |-> 0, onFailureArgs |-> <<>>, onFailureSeen |-> Undefined,
     onFailureOutcome |-> None,
     originalCalls |-> 0, out |-> None]

\* event.locals and event.request of the call's own RequestEvent.  The body
\* of the request is fixed when the request arrives; the model draws it when
\* it is first read (body.k = "none" until then).  bodyUsed is
\* event.request.bodyUsed; clones counts the clones of the request whose body
\* has been consumed.
NewEvent == [validated |-> Undefined, bodyUsed |-> FALSE, clones |-> 0, body |-> None]

IdleCall ==
    [status |-> "idle", member |-> Method("BaseClass", constructor), construct |-> FALSE,
     args |-> <<>>, self |-> Undefined, event |-> NewEvent,
     depth |-> 0, pc |-> "idle", pending |-> None, frames |-> <<>>, outcome |-> None]

NewCall(member, construct, self, args) ==
    [status |-> "running", member |-> member, construct |-> construct,
     args |-> args, self |-> self, event |-> NewEvent,
     depth |-> 1, pc |-> "enter", pending |-> None,
     frames |-> [d \in 1..(Len(member.layers) + 1) |-> NoFrame], outcome |-> None]

Layers(call) == call.member.layers
InWrapper(call) == call.status = "running" /\ call.depth <= Len(Layers(call))
Layer(call) == Layers(call)[call.depth]

\* The frame at call.depth is invoked with (self, args): the wrapper's
\* `async function (...args)` or the method body starts.
Invoked(call, self, args) ==
    [call EXCEPT !.frames[call.depth] =
        [@ EXCEPT !.entered = @ + 1, !.args = args, !.self = self,
                  !.seenValidated = call.event.validated,
                  !.seenBodyUsed = call.event.bodyUsed]]

\* Mutant: original(...args), the receiver is lost.
ApplyOriginalUnbound(call) ==
    LET f == call.frames[call.depth] IN
    Invoked([call EXCEPT !.frames[call.depth].originalCalls = @ + 1,
                         !.depth = @ + 1, !.pc = "enter"],
            Undefined, f.args)

\* original.apply(this, args): the frame at call.depth invokes the layer
\* below it with its own receiver and argument list.
ApplyOriginal(call) ==
    LET f == call.frames[call.depth] IN
    Invoked([call EXCEPT !.frames[call.depth].originalCalls = @ + 1,
                         !.depth = @ + 1, !.pc = "enter"],
            f.self, f.args)

\* The async function at call.depth settles with outcome out.
Settle(call, out) ==
    [call EXCEPT !.frames[call.depth].out = out, !.pc = "return", !.pending = None]

(***************************************************************************)
(* The closure Check installs (check-decorator.ts 11-22, and the same      *)
(* closure of the class branch, 44-55)                                     *)
(***************************************************************************)
\* Mutant: the predicate is invoked whether or not one was given.
HasCheckAlways(layer) == TRUE

\* if (check)
HasCheck(layer) == layer.check # NoCheck

\* Mutant: if (!checkResult) return checkResult; any truthy value passes.
ProceedsIfTruthy(checkResult) == checkResult \notin {Undefined, Null, JsFalse, Num(0), Str("")}

\* Mutant: the result of the predicate is ignored.
ProceedsAlways(checkResult) == TRUE

\* Mutant: if (checkResult === false) return checkResult; only false halts.
ProceedsUnlessFalse(checkResult) == checkResult # JsFalse

\* checkResult !== true fails: the call goes on to the original method.
Proceeds(checkResult) == checkResult = JsTrue

\* return checkResult;
Halt(checkResult) == Return(checkResult)

\* Mutant: try { ... } catch (e) { return e; }
CheckFaultReturned(e) == Return(e)

\* await check(...) throws: nothing catches it, the async function rejects.
CheckFault(e) == Throw(e)

\* return original.apply(this, args): the wrapper settles as the original did.
ReturnOriginal(out) == out

\* Mutant: const checkResult = check(args[0]), a promise is not awaited.
NotAwaited(outcome) == IF outcome.promise THEN Return([t |-> "promise"]) ELSE outcome.settle

\* await x: the settlement of x when x is a promise, x itself otherwise.
Await(outcome) == outcome.settle

\* const checkResult = await check(args[0]): the predicate is invoked with
\* the first argument; a synchronous throw rejects the call at once, any
\* other outcome is awaited.
InvokeCheck(call, outcome) ==
    LET f == call.frames[call.depth]
        invoked == [call EXCEPT !.frames[call.depth].checkCalls = @ + 1,
                                !.frames[call.depth].checkArgs = <<FirstArg(f.args)>>,
                                !.frames[call.depth].checkReturned = outcome]
    IN  IF ~outcome.promise /\ outcome.settle.k = "throw"
        THEN Settle([invoked EXCEPT !.frames[call.depth].checkResult = outcome.settle],
                    CheckFault(outcome.settle.e))
        ELSE [invoked EXCEPT !.pending = Await(outcome), !.pc = "awaitCheck"]

\* The rest of the closure, once the awaited predicate has settled.
AfterCheck(call) ==
    LET settled == [call EXCEPT !.frames[call.depth].checkResult = call.pending,
                                !.pending = None]
    IN  IF call.pending.k = "throw"
        THEN Settle(settled, CheckFault(call.pending.e))
        ELSE IF Proceeds(call.pending.v)
        THEN ApplyOriginal(settled)
        ELSE Settle(settled, Halt(call.pending.v))

(***************************************************************************)
(* The closure ZodValidate installs (validation-decorator.ts 25-45)        *)
(***************************************************************************)
FormData(entries) == [t |-> "FormData", entries |-> entries]

\* event.request.clone() and .formData() of the environment: every clone
\* of one request reads the same body.
CloneOutcomes == {Return(Undefined), Throw(Error("Clone failed"))}
FormDataOutcomes(event) ==
    {Return(FormData(form)) :
        form \in {g \in RequestForms : event.body = None \/ event.body = Return(FormData(g))}}
        \cup {Throw(Error("FormData failed"))}
\* What the callback may do: return or throw, or return a promise that
\* resolves or rejects later.
OnFailureOutcomes ==
    {[promise |-> FALSE, settle |-> Return(Undefined)],
     [promise |-> FALSE, settle |-> Throw(Error("onFailure failed"))],
     [promise |-> TRUE, settle |-> Return(Undefined)],
     [promise |-> TRUE, settle |-> Throw(Error("onFailure rejected"))]}

\* Mutant: the branches of the conditional are swapped.
ValidatedSwapped(result) == IF result.success THEN Null ELSE result.data

\* event.locals.validated = result.success ? result.data : null;
Validated(result) == IF result.success THEN result.data ELSE Null

\* if (onFailure)
HasOnFailure(layer) == layer.onFailure # NoCallback

\* Mutant: the callback is called before the success test.
CallsOnFailureAlways(layer, result) == HasOnFailure(layer)

\* if (!result.success) { if (onFailure) { onFailure(...) } ... }
CallsOnFailure(layer, result) == ~result.success /\ HasOnFailure(layer)

\* Mutant: try { onFailure(event, result.error); } catch {}
CallbackThrowsCaught(outcome) == FALSE

\* Mutant: await onFailure(event, result.error), a rejection is thrown too.
CallbackThrowsAwaited(outcome) == outcome.settle.k = "throw"

\* onFailure(event, result.error); the statement throws what the callback
\* throws; a promise the callback returns is dropped.
CallbackThrows(outcome) == ~outcome.promise /\ outcome.settle.k = "throw"

\* result?.error?.errors ?? []
Errors(result) ==
    IF result.error # Undefined /\ result.error.errors.defined
    THEN result.error.errors.items
    ELSE <<>>

\* Mutant: fail(400, ...).
ValidationFailed400(result) ==
    Return(fail(400, [message |-> "Validation failed.", errors |-> Errors(result)]))

\* return fail(422, { message: 'Validation failed.', errors: ... });
ValidationFailed(result) ==
    Return(fail(422, [message |-> "Validation failed.", errors |-> Errors(result)]))

\* Mutant: the read is inside a try whose catch returns the 422 failure.
TransportFaultAs422(e) ==
    Return(fail(422, [message |-> "Validation failed.", errors |-> <<>>]))

\* A failure of clone() or of the awaited formData(): nothing catches it.
TransportFault(e) == Throw(e)

\* Mutant: await event.request.formData(), the body of the request itself
\* is consumed.
ReadsRequest(event) == [event EXCEPT !.bodyUsed = TRUE]

\* event.request.clone().formData(): the body of a new clone is consumed,
\* event.request keeps its own.
ReadsClone(event) == [event EXCEPT !.clones = @ + 1]

\* const formData = await event.request.clone().formData(): args[0], when it
\* is no event, makes event.request throw a TypeError.
ReadForm(call, cloned, read) ==
    LET f == call.frames[call.depth] IN
    IF FirstArg(f.args).t # "event"
    THEN Settle(call, Throw(Error("TypeError")))
    ELSE IF cloned.k = "throw"
    THEN Settle([call EXCEPT !.frames[call.depth].cloneCalls = @ + 1,
                             !.frames[call.depth].transport = cloned],
                TransportFault(cloned.e))
    ELSE [call EXCEPT !.frames[call.depth].cloneCalls = @ + 1,
                      !.frames[call.depth].formDataCalls = @ + 1,
                      !.event = ReadsClone([@ EXCEPT !.body = IF read.k = "return" THEN read ELSE @]),
                      !.pending = read, !.pc = "awaitFormData"]

\* The rest of the closure, once the awaited formData() has settled.
AfterFormData(call, hasErrors, onFailureOutcome) ==
    IF call.pending.k = "throw"
    THEN Settle([call EXCEPT !.frames[call.depth].transport = call.pending],
                TransportFault(call.pending.e))
    ELSE
    LET formData == call.pending.v.entries
        data == formDataToObject(formData)
        result == safeParse(Layer(call).schema, data, hasErrors)
        stored == [call EXCEPT !.event.validated = Validated(result),
                               !.pending = None,
                               !.frames[call.depth].parsed = TRUE,
                               !.frames[call.depth].formData = formData,
                               !.frames[call.depth].result = result]
        called == [stored EXCEPT
                      !.frames[call.depth].onFailureCalls = @ + 1,
                      !.frames[call.depth].onFailureArgs = <<FirstArg(call.frames[call.depth].args), result.error>>,
                      !.frames[call.depth].onFailureSeen = stored.event.validated,
                      !.frames[call.depth].onFailureOutcome = onFailureOutcome]
    IN  IF CallsOnFailure(Layer(call), result)
        THEN IF CallbackThrows(onFailureOutcome)
             THEN Settle(called, Throw(onFailureOutcome.settle.e))
             ELSE IF ~result.success
             THEN Settle(called, ValidationFailed(result))
             ELSE ApplyOriginal(called)
        ELSE IF ~result.success
        THEN Settle(stored, ValidationFailed(result))
        ELSE ApplyOriginal(stored)

(***************************************************************************)
(* The command line tool: deckit make:controller <dest> [--name Name]      *)
(* [--force].  A path is the sequence of its segments; a segment is its    *)
(* text up to a final '.ts' and whether that '.ts' is there.               *)
(***************************************************************************)
Seg(stem, ts) == [stem |-> stem, ts |-> ts]
Word(stem) == Seg(stem, FALSE)

\* The elements of process.argv.slice(2).  sep: the argument ends with '/'.
ForceFlag == [t |-> "--force"]
NameFlag == [t |-> "--name"]
NameEq(name) == [t |-> "--name=", name |-> name]
HelpFlag == [t |-> "--help"]
Arg(segs, sep) == [t |-> "arg", segs |-> segs, sep |-> sep]

\* The text of an argument that is a single word.
Text(a) == IF a.t # "arg" THEN a.t
           ELSE IF Len(a.segs) = 1 /\ ~a.segs[1].ts /\ ~a.sep THEN a.segs[1].stem
           ELSE "path"

\* opts.positional: '' or a path.
NoPositional == [given |-> FALSE, segs |-> <<>>, sep |-> FALSE]
Positional(segs, sep) == [given |-> TRUE, segs |-> segs, sep |-> sep]

\* a.startsWith('src/routes/')
StartsWithSrcRoutes(a) ==
    /\ (Len(a.segs) > 2 \/ (Len(a.segs) = 2 /\ a.sep))
    /\ a.segs[1] = Word("src") /\ a.segs[2] = Word("routes")

\* The process has called process.exit(status).
Exit(opts, status) == [opts EXCEPT !.exited = TRUE, !.status = status]

\* The for loop of parseOptions, from argv[i] on.
RECURSIVE parseArgs(_, _, _)
parseArgs(argv, i, opts) ==
    IF i > Len(argv) THEN opts
    ELSE LET a == argv[i] IN
         IF a.t = "--force" THEN parseArgs(argv, i + 1, [opts EXCEPT !.force = TRUE])
         ELSE IF a.t = "--name"
         THEN IF i + 1 > Len(argv) \/ argv[i + 1].t # "arg"
              THEN Exit(opts, 2)
              ELSE parseArgs(argv, i + 2, [opts EXCEPT !.name = Text(argv[i + 1])])
         ELSE IF a.t = "--name="
         THEN parseArgs(argv, i + 1, [opts EXCEPT !.name = IF a.name # "" THEN a.name ELSE @])
         ELSE IF a.t = "--help" THEN Exit(opts, 0)
         ELSE parseArgs(argv, i + 1,
                        [opts EXCEPT !.positional =
                            IF ~StartsWithSrcRoutes(a)
                            THEN Positional(<<Word("src"), Word("routes")>> \o a.segs, a.sep)
                            ELSE Positional(a.segs, a.sep)])

\* opts.positional.match(/.+\/(\w+)(\.ts)?/)?.[1]: the word after the last
\* '/' that has one ('' when nothing matches).
MatchName(positional) ==
    IF positional.given /\ Len(positional.segs) >= 2
    THEN positional.segs[Len(positional.segs)].stem
    ELSE ""

parseOptions(argv) ==
    LET opts == parseArgs(argv, 1, [exited |-> FALSE, status |-> 0, name |-> "",
                                    force |-> FALSE, positional |-> NoPositional])
    IN  IF opts.exited \/ opts.name # "" THEN opts
        ELSE IF MatchName(opts.positional) = "" THEN Exit(opts, 1)
        ELSE [opts EXCEPT !.name = MatchName(opts.positional)]

\* The contents of a file: where its text comes from and the name in its
\* 'export default class <name>'.
Content(text, class) == [text |-> text, class |-> class]
PackageTemplate == Content("templates/controller.base.ts of the package", "EditController")
UserTemplate == Content("templates/controller.base.ts of the project", "BaseController")
NoContent == Content("", "")

\* The project: its directories, and its files with their contents.
ProjectDirs == {<<>>, <<Word("src")>>, <<Word("src"), Word("routes")>>}
NoFiles == <<>>
UserTemplatePath == <<Word("templates"), Seg("controller.base", TRUE)>>

\* The template shipped in the package, ../templates/controller.base.ts.
PackageTemplateExists == TRUE

existsSync(fsFiles, fsDirs, path) == path \in fsDirs \/ path \in DOMAIN fsFiles
readFileSync(fsFiles, path) == fsFiles[path]

\* fs.mkdirSync(dir, { recursive: true })
mkdirSync(fsDirs, dir) == fsDirs \cup {SubSeq(dir, 1, n) : n \in 0..Len(dir)}

\* fs.writeFileSync(path, content)
writeFileSync(fsFiles, path, content) ==
    [q \in DOMAIN fsFiles \cup {path} |-> IF q = path THEN content ELSE fsFiles[q]]

\* p.endsWith('.ts') ? p : p + '.ts'
ensureTsExt(seg) == IF seg.ts THEN seg ELSE [seg EXCEPT !.ts = TRUE]

\* content.replace(/export\s+default\s+class\s+\w+/, `export default class ${name}`)
replaceClass(content, name) == IF content.class # "" THEN [content EXCEPT !.class = name] ELSE content

\* resolveTemplatePath(): the project's own template when there is one, the
\* package's otherwise; found tells whether either exists.
resolveTemplatePath(fsFiles, fsDirs) ==
    IF existsSync(fsFiles, fsDirs, UserTemplatePath)
    THEN [found |-> TRUE, content |-> readFileSync(fsFiles, UserTemplatePath)]
    ELSE IF ~PackageTemplateExists THEN [found |-> FALSE, content |-> NoContent]
    ELSE [found |-> TRUE, content |-> PackageTemplate]

\* Mutant: if (fs.existsSync(destPath)), --force is ignored.
RefusesForced(exists, force) == exists

\* if (fs.existsSync(destPath) && !opts.force)
Refuses(exists, force) == exists /\ ~force

\* The outcome of a run: the exit status and the project it leaves.
Outcome(status, fsFiles, fsDirs, destPath, reached) ==
    [status |-> status, files |-> fsFiles, dirs |-> fsDirs, destPath |-> destPath,
     reached |-> reached]

createController(fsFiles, fsDirs, destPath, opts) ==
    LET destDir == SubSeq(destPath, 1, Len(destPath) - 1)
        made == mkdirSync(fsDirs, destDir)
        template == resolveTemplatePath(fsFiles, made)
        content == IF opts.name # "" /\ opts.name # "Controller"
                   THEN replaceClass(template.content, opts.name)
                   ELSE template.content
    IN  IF Refuses(existsSync(fsFiles, made, destPath), opts.force)
        THEN Outcome(3, fsFiles, made, destPath, TRUE)
        ELSE IF ~template.found THEN Outcome(1, fsFiles, made, destPath, TRUE)
        ELSE Outcome(0, writeFileSync(fsFiles, destPath, content), made, destPath, TRUE)

\* main() for the command make:controller (make:route is not modelled: no
\* run of the model names it).
main(fsFiles, fsDirs, argv) ==
    IF Len(argv) = 0 THEN Outcome(2, fsFiles, fsDirs, <<>>, FALSE)
    ELSE IF Text(argv[1]) \notin {"make:controller", "make:route"}
    THEN Outcome(2, fsFiles, fsDirs, <<>>, FALSE)
    ELSE LET opts == parseOptions(Tail(argv))
             destArg == opts.positional
             resolved == destArg.segs
             isDirTarget == destArg.sep \/ resolved \in fsDirs
             destPath ==
                 IF isDirTarget THEN Append(resolved, ensureTsExt(Word(opts.name)))
                 ELSE Append(SubSeq(resolved, 1, Len(resolved) - 1),
                             ensureTsExt(resolved[Len(resolved)]))
         IN  IF opts.exited THEN Outcome(opts.status, fsFiles, fsDirs, <<>>, FALSE)
             ELSE IF ~destArg.given THEN Outcome(2, fsFiles, fsDirs, <<>>, FALSE)
             ELSE createController(fsFiles, fsDirs, destPath, opts)

\* A run of the tool: its arguments, what it found, and how it ended.
NoRun ==
    [ran |-> FALSE, argv |-> <<>>, status |-> 0, reached |-> FALSE, destPath |-> <<>>,
     existed |-> FALSE, before |-> NoContent, template |-> NoContent]

(***************************************************************************)
(* Initial state and actions                                               *)
(***************************************************************************)
\* One use of formDataToObject: the form given (input), the form being
\* flattened (formData), the object returned, and the object the first
\* flattening returned when the form was rebuilt from it.
FormUse(pc, input, formData, object, first) ==
    [pc |-> pc, input |-> input, formData |-> formData, object |-> object, first |-> first]
NoForm == FormUse("none", <<>>, <<>>, <<>>, <<>>)

Init ==
    /\ proto = [cls \in Classes |-> ClassBody(cls)]
    /\ stage = "methods"
    /\ applied = <<>>
    /\ calls = [c \in CallIds |-> IdleCall]
    /\ flat = NoForm
    /\ files = NoFiles /\ dirs = ProjectDirs /\ proc = NoRun

\* The methods the examples decorate one by one.
MethodTargets == {<<"BaseClass", publicMethod1>>}

\* The predicates a further Check may be given: none, one already in use, or
\* the next unused one (predicates differ in name only).
UsedChecks == {applied[i].check : i \in 1..Len(applied)} \ {NoCheck}
AvailableChecks ==
    {NoCheck} \cup UsedChecks
        \cup (IF "A" \notin UsedChecks THEN {"A"}
              ELSE IF "B" \notin UsedChecks THEN {"B"} ELSE {})

Applied(kind, target, propertyKey, check, schema, onFailure) ==
    [kind |-> kind, target |-> target, propertyKey |-> propertyKey,
     check |-> check, schema |-> schema, onFailure |-> onFailure]

\* @Check(check) or @Check() on a method.
DecorateMethodCheck(target, propertyKey, check) ==
    /\ stage = "methods"
    /\ Len(applied) < MaxDecorations
    /\ proto' = Check(proto, check, target, propertyKey)
    /\ applied' = Append(applied, Applied("Check", target, propertyKey, check, NoSchema, NoCallback))
    /\ UNCHANGED <<stage, calls, formVars, cliVars>>

\* @ZodValidate(schema) or @ZodValidate(schema, onFailure) on a method.
DecorateMethodZodValidate(target, propertyKey, schema, onFailure) ==
    /\ stage = "methods"
    /\ Len(applied) < MaxDecorations
    /\ proto' = ZodValidate(proto, schema, onFailure, target, propertyKey)
    /\ applied' = Append(applied, Applied("ZodValidate", target, propertyKey, NoCheck, schema, onFailure))
    /\ UNCHANGED <<stage, calls, formVars, cliVars>>

\* @Check(check) or @Check() on a class: class decorators are applied after
\* the decorators of the class's methods.
DecorateClassCheck(target, check) ==
    /\ stage \in {"methods", "classes"}
    /\ Len(applied) < MaxDecorations
    /\ proto' = Check(proto, check, target, <<>>)
    /\ applied' = Append(applied, Applied("Check", target, <<>>, check, NoSchema, NoCallback))
    /\ stage' = "classes"
    /\ UNCHANGED <<calls, formVars, cliVars>>

\* Mutant: the closure keeps the event in a variable of the decorator, which
\* holds the event of the first call.
ContextOfFirstCall(args) == CHOOSE c \in CallIds : \A d \in CallIds : c <= d

\* const event = args[0] as RequestEvent: the context object the closure
\* works on is the one the call was given (the event of call id is kept in
\* calls[id].event).
Context(args) == FirstArg(args).id

\* The call c as the code of its current frame sees it: with the context
\* object its first argument refers to.
View(c) ==
    LET call == calls[c]
        args == call.frames[call.depth].args
    IN  IF call.status = "running" /\ FirstArg(args).t = "event"
        THEN [call EXCEPT !.event = calls[Context(args)].event]
        ELSE call

\* The calls after call c has become new: what the step did to the context
\* object is stored where that object lives.
Stored(c, new) ==
    LET args == calls[c].frames[calls[c].depth].args IN
    IF FirstArg(args).t = "event" /\ Context(args) # c
    THEN [calls EXCEPT ![c] = [new EXCEPT !.event = calls[c].event],
                       ![Context(args)].event = new.event]
    ELSE [calls EXCEPT ![c] = new]

\* instance.name(...args) on an instance of cls.
StartCall(c, cls, name, args) ==
    /\ calls[c].status = "idle"
    /\ name # constructor
    /\ HasProperty(proto, cls, name)
    /\ IsFunction(Lookup(proto, cls, name))
    /\ calls' = [calls EXCEPT ![c] =
                    Invoked(NewCall(Lookup(proto, cls, name), FALSE, Instance(cls), args),
                            Instance(cls), args)]
    /\ stage' = "run"
    /\ UNCHANGED <<proto, applied, formVars, cliVars>>

\* new cls()
Construct(c, cls) ==
    /\ calls[c].status = "idle"
    /\ calls' = [calls EXCEPT ![c] =
                    Invoked(NewCall(ClassBinding(cls), TRUE, Instance(cls), <<>>),
                            Instance(cls), <<>>)]
    /\ stage' = "run"
    /\ UNCHANGED <<proto, applied, formVars, cliVars>>

\* The closure of Check starts: up to its await, or to the original method
\* when there is no predicate.
EnterCheck(c) ==
    /\ InWrapper(calls[c]) /\ calls[c].pc = "enter"
    /\ Layer(calls[c]).kind = "Check"
    /\ IF HasCheck(Layer(calls[c]))
       THEN \E outcome \in CheckOutcomes :
               calls' = Stored(c, InvokeCheck(View(c), outcome))
       ELSE calls' = Stored(c, ApplyOriginal(View(c)))
    /\ UNCHANGED <<proto, stage, applied, formVars, cliVars>>

\* The awaited predicate has settled.
AwaitCheck(c) ==
    /\ InWrapper(calls[c]) /\ calls[c].pc = "awaitCheck"
    /\ calls' = Stored(c, AfterCheck(View(c)))
    /\ UNCHANGED <<proto, stage, applied, formVars, cliVars>>

\* The closure of ZodValidate starts: up to its await.
EnterZodValidate(c) ==
    /\ InWrapper(calls[c]) /\ calls[c].pc = "enter"
    /\ Layer(calls[c]).kind = "ZodValidate"
    /\ \E cloned \in CloneOutcomes, read \in FormDataOutcomes(View(c).event) :
          calls' = Stored(c, ReadForm(View(c), cloned, read))
    /\ UNCHANGED <<proto, stage, applied, formVars, cliVars>>

\* The awaited formData() has settled.
AwaitFormData(c) ==
    /\ InWrapper(calls[c]) /\ calls[c].pc = "awaitFormData"
    /\ \E hasErrors \in BOOLEAN, onFailureOutcome \in OnFailureOutcomes :
          calls' = Stored(c, AfterFormData(View(c), hasErrors, onFailureOutcome))
    /\ UNCHANGED <<proto, stage, applied, formVars, cliVars>>

\* The method body runs with the receiver and arguments it was applied to.
EnterBody(c) ==
    /\ calls[c].status = "running" /\ calls[c].pc = "enter"
    /\ calls[c].depth = Len(Layers(calls[c])) + 1
    /\ \E out \in BodyOutcomes(calls[c].member, calls[c].frames[calls[c].depth].self,
                               calls[c].frames[calls[c].depth].args) :
          calls' = [calls EXCEPT ![c] = Settle(calls[c], out)]
    /\ UNCHANGED <<proto, stage, applied, formVars, cliVars>>

\* A frame has settled: the wrapper that applied it settles the same way,
\* and the outermost frame's outcome is the outcome of the call.
ReturnToCaller(c) ==
    /\ calls[c].status = "running" /\ calls[c].pc = "return"
    /\ LET call == calls[c]
           out == call.frames[call.depth].out
       IN  IF call.depth = 1
           THEN calls' = [calls EXCEPT ![c] = [call EXCEPT !.status = "done", !.pc = "done",
                                                         !.outcome = out]]
           ELSE calls' = [calls EXCEPT ![c] =
                    [call EXCEPT !.depth = @ - 1,
                                 !.frames[call.depth - 1].out = ReturnOriginal(out)]]
    /\ UNCHANGED <<proto, stage, applied, formVars, cliVars>>

\* The caller has the outcome; the call's record is dropped.
Finish(c) ==
    /\ calls[c].status = "done"
    /\ calls' = [calls EXCEPT ![c] = IdleCall]
    /\ UNCHANGED <<proto, stage, applied, formVars, cliVars>>

Decorate ==
    \/ \E t \in MethodTargets, check \in AvailableChecks :
          DecorateMethodCheck(t[1], t[2], check)
    \/ \E t \in MethodTargets, schema \in Schemas, onFailure \in Callbacks \cup {NoCallback} :
          DecorateMethodZodValidate(t[1], t[2], schema, onFailure)
    \/ \E cls \in Classes, check \in AvailableChecks :
          DecorateClassCheck(cls, check)

Run(c) ==
    \/ \E cls \in Classes, name \in DOMAIN ClassBody("BaseClass"), args \in ArgLists(c) :
          StartCall(c, cls, name, args)
    \/ \E cls \in Classes : Construct(c, cls)
    \/ EnterCheck(c)
    \/ AwaitCheck(c)
    \/ EnterZodValidate(c)
    \/ AwaitFormData(c)
    \/ EnterBody(c)
    \/ ReturnToCaller(c)
    \/ Finish(c)

Next == Decorate \/ \E c \in SequentialCalls : Run(c)

Spec == Init /\ [][Next]_vars

(***************************************************************************)
(* Interleaved calls: every call id may have a call in flight, and a step  *)
(* of one call may come between any two steps of the other.  The classes   *)
(* are decorated before the first call: publicMethod1 of BaseClass with    *)
(* @ZodValidate(schema, onFailure), DerivedClass with @Check(A).           *)
(***************************************************************************)
DecoratedProto ==
    Check(ZodValidate([cls \in Classes |-> ClassBody(cls)],
                      "transformSchema", "onFailureCallback", "BaseClass", publicMethod1),
          "A", "DerivedClass", <<>>)

InitConc ==
    /\ proto = DecoratedProto
    /\ stage = "run"
    /\ applied = <<Applied("ZodValidate", "BaseClass", publicMethod1, NoCheck,
                           "transformSchema", "onFailureCallback"),
                   Applied("Check", "DerivedClass", <<>>, "A", NoSchema, NoCallback)>>
    /\ calls = [c \in CallIds |-> IdleCall]
    /\ flat = NoForm
    /\ files = NoFiles /\ dirs = ProjectDirs /\ proc = NoRun

NextConc == \E c \in CallIds : Run(c)

SpecConc == InitConc /\ [][NextConc]_vars

(***************************************************************************)
(* formDataToObject on its own: a form is built with append, flattened,    *)
(* built again from the object returned, and flattened again.              *)
(***************************************************************************)
\* new FormData() followed by formData.append(key, value) for every element
\* of every entry of object, key by key.
RECURSIVE AppendAll(_, _)
AppendAll(formData, object) ==
    IF object = <<>> THEN formData
    ELSE AppendAll(formData \o [i \in 1..Len(Head(object).vals) |->
                                    <<Head(object).key, Head(object).vals[i]>>],
                   Tail(object))

InitForm ==
    /\ proto = [cls \in Classes |-> ClassBody(cls)]
    /\ stage = "methods"
    /\ applied = <<>>
    /\ calls = [c \in CallIds |-> IdleCall]
    /\ flat \in {FormUse("built", form, form, <<>>, <<>>) : form \in Forms}
    /\ files = NoFiles /\ dirs = ProjectDirs /\ proc = NoRun

\* const result = formDataToObject(formData)
Flatten ==
    /\ flat.pc \in {"built", "rebuilt"}
    /\ flat' = [flat EXCEPT !.pc = IF flat.pc = "built" THEN "returned" ELSE "returned again",
                            !.object = formDataToObject(flat.formData)]
    /\ UNCHANGED <<deckVars, cliVars>>

\* A second form is built from the object the first flattening returned.
Rebuild ==
    /\ flat.pc = "returned"
    /\ flat' = [flat EXCEPT !.pc = "rebuilt",
                            !.formData = AppendAll(<<>>, flat.object),
                            !.first = flat.object]
    /\ UNCHANGED <<deckVars, cliVars>>

NextForm == Flatten \/ Rebuild

SpecForm == InitForm /\ [][NextForm]_vars

(***************************************************************************)
(* Runs of the command line tool in one project                            *)
(***************************************************************************)
make_controller == Arg(<<Word("make:controller")>>, FALSE)

\* The destinations of the runs: dashboard/UserController.ts,
\* src/routes/dashboard/UserController, dashboard/ and dashboard.
UserControllerTs == Arg(<<Word("dashboard"), Seg("UserController", TRUE)>>, FALSE)
SrcRoutesUserController ==
    Arg(<<Word("src"), Word("routes"), Word("dashboard"), Word("UserController")>>, FALSE)
DashboardSlash == Arg(<<Word("dashboard")>>, TRUE)
Dashboard == Arg(<<Word("dashboard")>>, FALSE)

\* The command lines: deckit make:controller <dest> [--name Name] [--force],
\* each destination with and without --force, and some that name no
\* destination, no command, an unknown command, or ask for help.
CommandLines ==
    {<<make_controller, UserControllerTs>>,
     <<make_controller, UserControllerTs, ForceFlag>>,
     <<make_controller, SrcRoutesUserController, NameFlag, Arg(<<Word("Controller")>>, FALSE)>>,
     <<make_controller, SrcRoutesUserController, NameFlag, Arg(<<Word("Controller")>>, FALSE),
       ForceFlag>>,
     <<make_controller, DashboardSlash, NameEq("UserController")>>,
     <<make_controller, ForceFlag, DashboardSlash, NameEq("UserController")>>,
     <<make_controller, Dashboard>>,
     <<make_controller, Dashboard, ForceFlag>>,
     <<make_controller, UserControllerTs, NameFlag>>,
     <<make_controller, NameEq("UserController")>>,
     <<make_controller>>,
     <<make_controller, HelpFlag>>,
     <<Arg(<<Word("serve")>>, FALSE)>>,
     <<>>}

InitCli ==
    /\ proto = [cls \in Classes |-> ClassBody(cls)]
    /\ stage = "methods"
    /\ applied = <<>>
    /\ calls = [c \in CallIds |-> IdleCall]
    /\ flat = NoForm
    /\ files = NoFiles /\ dirs = ProjectDirs /\ proc = NoRun

\* npx deckit ...argv, from start to exit.
RunDeckit(argv) ==
    LET out == main(files, dirs, argv)
        existed == out.reached /\ existsSync(files, out.dirs, out.destPath)
    IN  /\ files' = out.files
        /\ dirs' = out.dirs
        /\ proc' = [ran |-> TRUE, argv |-> argv, status |-> out.status,
                    reached |-> out.reached, destPath |-> out.destPath,
                    existed |-> existed,
                    before |-> IF out.reached /\ out.destPath \in DOMAIN files
                               THEN files[out.destPath] ELSE NoContent,
                    template |-> resolveTemplatePath(files, dirs).content]
        /\ UNCHANGED <<deckVars, formVars>>

\* The project gets its own templates/controller.base.ts, or loses it.
SetUserTemplate(present) ==
    /\ present # (UserTemplatePath \in DOMAIN files)
    /\ files' = IF present THEN writeFileSync(files, UserTemplatePath, UserTemplate)
                ELSE [q \in DOMAIN files \ {UserTemplatePath} |-> files[q]]
    /\ dirs' = IF present THEN mkdirSync(dirs, <<Word("templates")>>) ELSE dirs
    /\ UNCHANGED <<proc, deckVars, formVars>>

NextCli ==
    \/ \E argv \in CommandLines : RunDeckit(argv)
    \/ \E present \in BOOLEAN : SetUserTemplate(present)

SpecCli == InitCli /\ [][NextCli]_vars

(***************************************************************************)
(* Claims                                                                  *)
(***************************************************************************)
\* The frames (call, depth) of the wrappers of one kind that have been invoked.
WrapperFrames(kind) ==
    {cd \in CallIds \X (1..(MaxDecorations + 1)) :
        /\ calls[cd[1]].status # "idle"
        /\ cd[2] <= Len(Layers(calls[cd[1]]))
        /\ Layers(calls[cd[1]])[cd[2]].kind = kind
        /\ calls[cd[1]].frames[cd[2]].entered > 0}

FrameOf(cd) == calls[cd[1]].frames[cd[2]]
OriginalOf(cd) == calls[cd[1]].frames[cd[2] + 1]
LayerOf(cd) == Layers(calls[cd[1]])[cd[2]]

\* The wrapper frame has invoked its original exactly once, with its own
\* argument list and receiver, and settles exactly as the original did.
PassesThrough(cd) ==
    /\ FrameOf(cd).originalCalls = 1
    /\ OriginalOf(cd).entered = 1
    /\ OriginalOf(cd).args = FrameOf(cd).args
    /\ OriginalOf(cd).self = FrameOf(cd).self
    /\ FrameOf(cd).out # None => FrameOf(cd).out = OriginalOf(cd).out
    /\ (cd[2] = 1 /\ calls[cd[1]].status = "done") =>
          /\ OriginalOf(cd).out # None
          /\ calls[cd[1]].outcome = OriginalOf(cd).out

\* The wrapper frame never invoked its original.
NeverInvokesOriginal(cd) ==
    /\ FrameOf(cd).originalCalls = 0
    /\ OriginalOf(cd).entered = 0

\* The wrapper frame has settled with out, and so has the call when the
\* frame is the outermost one and the call is over.
SettledWith(cd, out) ==
    /\ FrameOf(cd).out = out
    /\ (cd[2] = 1 /\ calls[cd[1]].status = "done") => calls[cd[1]].outcome = out

\* C1: in every call of a method wrapped by Check(p) where p resolved to
\* exactly true, the original method has been invoked exactly once, with the
\* argument list and the receiver of the call, and the call's outcome is the
\* original's outcome (returned value or thrown failure) unchanged.
C1_TruePassesThrough ==
    \A cd \in WrapperFrames("Check") :
        (HasCheck(LayerOf(cd)) /\ FrameOf(cd).checkResult = Return(JsTrue)) => PassesThrough(cd)

C1_Witness ==
    \E cd \in WrapperFrames("Check") :
        /\ cd[2] = 1 /\ calls[cd[1]].status = "done"
        /\ LayerOf(cd).check = "A" /\ FrameOf(cd).checkResult = Return(JsTrue)
        /\ Len(calls[cd[1]].args) = 3
        /\ calls[cd[1]].outcome =
              Return([t |-> "result", home |-> "BaseClass", name |-> publicMethod1,
                      self |-> Instance("BaseClass"), args |-> calls[cd[1]].args])

C3_CheckFaultPropagates ==
    \A cd \in WrapperFrames("Check") :
        (HasCheck(LayerOf(cd)) /\ FrameOf(cd).checkResult.k = "throw")
        => /\ NeverInvokesOriginal(cd)
           /\ SettledWith(cd, Throw(FrameOf(cd).checkResult.e))

C3_Witness ==
    \E cd \in WrapperFrames("Check") :
        /\ cd[2] = 1 /\ calls[cd[1]].status = "done"
        /\ FrameOf(cd).checkCalls = 1
        /\ FrameOf(cd).checkResult = Throw(Error("Unauthorized"))
        /\ calls[cd[1]].outcome = Throw(Error("Unauthorized"))

\* C4: a wrapper made by Check() without a predicate, installed on a method
\* or through a class, invokes the original method exactly once in every
\* call and settles as the original does; it invokes no predicate and halts
\* no call.
C4_NoPredicatePassesThrough ==
    \A cd \in WrapperFrames("Check") :
        LayerOf(cd).check = NoCheck
        => /\ FrameOf(cd).checkCalls = 0
           /\ calls[cd[1]].pc # "enter" \/ calls[cd[1]].depth # cd[2] => PassesThrough(cd)

C4_Witness ==
    \E c \in CallIds :
        /\ calls[c].status = "done"
        /\ Len(Layers(calls[c])) = 2
        /\ Layers(calls[c])[1] = CheckLayer(NoCheck, "class", "BaseClass")
        /\ Layers(calls[c])[2] = CheckLayer(NoCheck, "method", "BaseClass")
        /\ calls[c].frames[3].entered = 1
        /\ calls[c].outcome = calls[c].frames[3].out
        /\ calls[c].outcome.k = "return"

\* The decorations applied so far that are Check on class cls.
ClassDecorations(cls) ==
    {i \in 1..Len(applied) :
        applied[i].kind = "Check" /\ applied[i].propertyKey = <<>> /\ applied[i].target = cls}

\* The depths of the layers of a call that a class decoration of cls installed.
ClassLayerDepths(call, cls) ==
    {d \in 1..Len(Layers(call)) : Layers(call)[d].mode = "class" /\ Layers(call)[d].on = cls}

BodyFrame(call) == call.frames[Len(Layers(call)) + 1]

BaseGuards ==
    {i \in 1..Len(applied) :
        /\ applied[i].kind = "Check" /\ applied[i].check # NoCheck
        /\ applied[i].target = "BaseClass"
        /\ applied[i].propertyKey \in {publicMethod1, <<>>}}

\* C6: a method guarded by Check on the base class stays guarded when it is
\* called on an instance of a derived class that does not override it: the
\* call runs the base class's wrappers, each predicate is invoked once, the
\* body starts only after every predicate resolved to true, and the call then
\* settles as the base method does.
C6_InheritedStaysGuarded ==
    \A c \in CallIds :
        (/\ calls[c].status # "idle" /\ ~calls[c].construct
         /\ calls[c].self = Instance("DerivedClass")
         /\ calls[c].member.name = publicMethod1)
        => LET call == calls[c]
               depths == {d \in 1..Len(Layers(call)) :
                             Layers(call)[d].kind = "Check" /\ Layers(call)[d].check # NoCheck}
           IN  /\ call.member.home = "BaseClass"
               /\ Cardinality(depths) = Cardinality(BaseGuards)
               /\ \A i \in BaseGuards :
                     \E d \in depths : /\ Layers(call)[d].check = applied[i].check
                                       /\ Layers(call)[d].on = "BaseClass"
               /\ \A d \in depths :
                     /\ call.frames[d].checkCalls <= 1
                     /\ BodyFrame(call).entered > 0
                        => /\ call.frames[d].checkCalls = 1
                           /\ call.frames[d].checkResult = Return(JsTrue)
               /\ BodyFrame(call).entered <= 1
               /\ BodyFrame(call).out # None
                  => BodyFrame(call).out \in
                        {Return([t |-> "result", home |-> "BaseClass", name |-> publicMethod1,
                                 self |-> Instance("DerivedClass"), args |-> call.args]),
                         Throw(Error("handler failed"))}
               /\ (call.status = "done" /\ BodyFrame(call).entered > 0)
                  => call.outcome = BodyFrame(call).out

C6_Witness ==
    \E c \in CallIds :
        /\ calls[c].status = "done"
        /\ calls[c].self = Instance("DerivedClass")
        /\ calls[c].member.name = publicMethod1
        /\ Len(applied) = 1 /\ applied[1].propertyKey = publicMethod1 /\ applied[1].check = "A"
        /\ calls[c].frames[1].checkCalls = 1
        /\ calls[c].outcome =
              Return([t |-> "result", home |-> "BaseClass", name |-> publicMethod1,
                      self |-> Instance("DerivedClass"),
                      args |-> <<EventRef(c), Str("extra"), Num(42)>>])

\* What the schema makes of the form a ZodValidate frame has read.
SchemaResult(cd) == safeParse(LayerOf(cd).schema, formDataToObject(FrameOf(cd).formData), TRUE)

\* C7: in every call of a method wrapped by ZodValidate(schema) whose form
\* body the schema accepts, event.locals.validated holds the schema's parsed
\* (transformed) output when the original method starts, the original method
\* is invoked exactly once with the call's arguments and receiver, and its
\* outcome is the call's outcome.
C7_ValidPassesThrough ==
    \A cd \in WrapperFrames("ZodValidate") :
        (FrameOf(cd).parsed /\ SchemaResult(cd).success)
        => /\ OriginalOf(cd).seenValidated = SchemaResult(cd).data
           /\ PassesThrough(cd)

C7_Witness ==
    \E cd \in WrapperFrames("ZodValidate") :
        /\ cd[2] = 1 /\ calls[cd[1]].status = "done"
        /\ FrameOf(cd).formData = <<<<"toString", "5">>, <<"count", "5">>>>
        /\ OriginalOf(cd).seenValidated = [t |-> "object", count |-> Num(10)]
        /\ calls[cd[1]].outcome.k = "return"

\* The failure value of a rejected form: status 422, the fixed message, and
\* the schema error's issue list or the empty sequence.
Expected422(cd) ==
    [t |-> "ActionFailure", status |-> 422,
     data |-> [message |-> "Validation failed.",
               errors |-> IF FrameOf(cd).result.error.errors.defined
                          THEN FrameOf(cd).result.error.issues
                          ELSE <<>>]]

Rejected(cd) == FrameOf(cd).parsed /\ ~SchemaResult(cd).success

\* C8 as claimed: in every call of a method wrapped by ZodValidate(schema)
\* whose form body the schema rejects, event.locals.validated is null after
\* the call, the original method is never invoked, and the call returns
\* fail(422, {message: 'Validation failed.', errors}).
C8_RejectedReturns422 ==
    \A cd \in WrapperFrames("ZodValidate") :
        Rejected(cd)
        => /\ NeverInvokesOriginal(cd)
           /\ calls[cd[1]].event.validated = Null
           /\ SettledWith(cd, Return(Expected422(cd)))

\* C8 amended: in every call of a method wrapped by ZodValidate(schema)
\* whose form body the schema rejects, event.locals.validated is null after
\* the call and the original method is never invoked; the call returns
\* fail(422, {message: 'Validation failed.', errors}) unless an onFailure
\* callback was given and throws, and then the call fails with the
\* callback's error.
C8_RejectedReturns422UnlessCallbackThrows ==
    \A cd \in WrapperFrames("ZodValidate") :
        Rejected(cd)
        => /\ NeverInvokesOriginal(cd)
           /\ calls[cd[1]].event.validated = Null
           /\ IF /\ LayerOf(cd).onFailure # NoCallback
                 /\ FrameOf(cd).onFailureOutcome =
                       [promise |-> FALSE, settle |-> Throw(Error("onFailure failed"))]
              THEN SettledWith(cd, Throw(Error("onFailure failed")))
              ELSE SettledWith(cd, Return(Expected422(cd)))

C8_Witness ==
    \E cd \in WrapperFrames("ZodValidate") :
        /\ cd[2] = 1 /\ calls[cd[1]].status = "done"
        /\ Rejected(cd)
        /\ calls[cd[1]].event.validated = Null
        /\ calls[cd[1]].outcome =
              Return(fail(422, [message |-> "Validation failed.",
                                errors |-> <<Issue("invalid_type", <<"count">>, "array")>>]))

\* C9: when ZodValidate is given an onFailure callback, a call whose schema
\* validation fails invokes the callback once with (event, schema error), and
\* a call whose schema validation succeeds, or that never reaches the schema,
\* does not invoke it.
C9_OnFailureOnlyOnFailure ==
    \A cd \in WrapperFrames("ZodValidate") :
        IF LayerOf(cd).onFailure # NoCallback /\ Rejected(cd)
        THEN /\ FrameOf(cd).onFailureCalls = 1
             /\ FrameOf(cd).onFailureArgs = <<EventRef(cd[1]), FrameOf(cd).result.error>>
             /\ FrameOf(cd).result.error.t = "ZodError"
        ELSE FrameOf(cd).onFailureCalls = 0

C9_Witness ==
    \E cd \in WrapperFrames("ZodValidate") :
        /\ calls[cd[1]].status = "done"
        /\ LayerOf(cd).onFailure = "onFailureCallback"
        /\ FrameOf(cd).onFailureCalls = 1
        /\ FrameOf(cd).onFailureArgs[1] = EventRef(cd[1])
        /\ calls[cd[1]].outcome.k = "return"

\* C10: if cloning the request or reading the clone's body as form data
\* fails in a ZodValidate-wrapped call, the call fails with that same failure;
\* it does not return the 422 failure value, parses nothing and does not
\* invoke the original method.
C10_TransportFaultPropagates ==
    \A cd \in WrapperFrames("ZodValidate") :
        FrameOf(cd).transport.k = "throw"
        => /\ SettledWith(cd, Throw(FrameOf(cd).transport.e))
           /\ ~FrameOf(cd).parsed
           /\ NeverInvokesOriginal(cd)

C10_Witness ==
    \E cd \in WrapperFrames("ZodValidate") :
        /\ cd[2] = 1 /\ calls[cd[1]].status = "done"
        /\ FrameOf(cd).cloneCalls = 1 /\ FrameOf(cd).formDataCalls = 1
        /\ FrameOf(cd).transport = Throw(Error("FormData failed"))
        /\ calls[cd[1]].outcome = Throw(Error("FormData failed"))

\* The calls of publicMethod1 when every decoration applied is a Check with
\* a predicate on that method, and there are at least two of them.  The
\* decorators of a method are applied bottom-up, so applied[Len(applied)] is
\* the top-listed one.
StackedGuardCalls ==
    {c \in CallIds :
        /\ calls[c].status # "idle" /\ ~calls[c].construct
        /\ calls[c].member.name = publicMethod1
        /\ Len(applied) >= 2
        /\ \A i \in 1..Len(applied) :
              /\ applied[i].kind = "Check" /\ applied[i].check # NoCheck
              /\ applied[i].propertyKey = publicMethod1}

\* The depths whose predicate resolved to a value other than true.
Stops(call) ==
    {d \in 1..Len(Layers(call)) :
        /\ call.frames[d].checkResult.k = "return"
        /\ call.frames[d].checkResult.v # JsTrue}

\* C11: when several Check guards are stacked on one method, the predicates
\* run in nesting order, the top-listed decorator's predicate first: a
\* predicate is invoked only after every predicate above it has resolved to
\* true.  The first predicate that resolves to a value other than true stops
\* the chain: no predicate below it and not the original method is invoked,
\* and the call returns that value.
C11_StackedGuardsRunOutermostFirst ==
    \A c \in StackedGuardCalls :
        LET call == calls[c]
            n == Len(applied)
        IN  /\ Len(Layers(call)) = n
            /\ \A d \in 1..n : Layers(call)[d].check = applied[n + 1 - d].check
            /\ \A d \in 1..n :
                  call.frames[d].checkCalls > 0
                  => \A e \in 1..(d - 1) : call.frames[e].checkResult = Return(JsTrue)
            /\ \A d \in Stops(call) :
                  /\ \A e \in (d + 1)..(n + 1) :
                        call.frames[e].entered = 0 /\ call.frames[e].checkCalls = 0
                  /\ call.status = "done"
                     => call.outcome = Return(call.frames[d].checkResult.v)

C11_Witness ==
    \E c \in StackedGuardCalls :
        /\ calls[c].status = "done"
        /\ Len(applied) = 2 /\ applied[1].check = "A" /\ applied[2].check = "B"
        /\ Layers(calls[c])[1].check = "B"
        /\ calls[c].frames[1].checkResult = Return(JsTrue)
        /\ calls[c].frames[2].checkCalls = 1
        /\ calls[c].frames[2].checkResult = Return(Str("halt"))
        /\ calls[c].frames[3].entered = 0
        /\ calls[c].outcome = Return(Str("halt"))

\* The string values of key in formData, in append order.
ValuesOf(formData, key) ==
    LET HasKey(pair) == pair[1] = key
        pairs == SelectSeq(formData, HasKey)
    IN  [i \in 1..Len(pairs) |-> toString(pairs[i][2])]

\* C12 as claimed: formDataToObject maps a key appearing once to its scalar
\* string value and a key appearing n >= 2 times to the sequence of its n
\* strings in append order; the result has no other key, and an empty form
\* yields an empty mapping.  This holds for every key name.
C12_FlattensEveryKey ==
    flat.pc = "returned"
    => /\ \A key \in Keys :
             LET values == ValuesOf(flat.input, key)
                 i == OwnIndex(flat.object, key)
             IN  IF Len(values) = 0 THEN i = 0
                 ELSE /\ i > 0
                      /\ flat.object[i] = IF Len(values) = 1 THEN Scalar(key, values[1])
                                          ELSE Array(key, values)
       /\ \A i, j \in 1..Len(flat.object) : flat.object[i].key = flat.object[j].key => i = j
       /\ \A i \in 1..Len(flat.object) : flat.object[i].key \in Keys
       /\ flat.input = <<>> => flat.object = <<>>

\* The position of the first pair of formData that has the key.
FirstOccurrence(formData, key) ==
    CHOOSE i \in 1..Len(formData) :
        formData[i][1] = key /\ \A j \in 1..(i - 1) : formData[j][1] # key

\* The keys of the object returned are the keys of the form, each once.
KeysAreTheFormKeys ==
    /\ \A i \in 1..Len(flat.object) :
          \E j \in 1..Len(flat.input) : flat.input[j][1] = flat.object[i].key
    /\ \A j \in 1..Len(flat.input) : OwnIndex(flat.object, flat.input[j][1]) > 0
    /\ \A i, j \in 1..Len(flat.object) : flat.object[i].key = flat.object[j].key => i = j

\* C13 as claimed: the keys of the mapping formDataToObject returns are
\* ordered by the first occurrence of each key in the form, for every
\* sequence of (key, value) pairs.
C13_KeysInFirstOccurrenceOrder ==
    flat.pc = "returned"
    => /\ KeysAreTheFormKeys
       /\ \A i, j \in 1..Len(flat.object) :
             i < j => FirstOccurrence(flat.input, flat.object[i].key)
                         < FirstOccurrence(flat.input, flat.object[j].key)

\* C13 amended: the keys of the mapping formDataToObject returns are ordered
\* by the first occurrence of each key in the form, except that the keys
\* that are canonical array indices ("2", "10") come before every other key,
\* in ascending numeric order.
C13_KeysInOwnKeyOrder ==
    flat.pc = "returned"
    => /\ KeysAreTheFormKeys
       /\ \A i, j \in 1..Len(flat.object) :
             i < j =>
                LET a == flat.object[i].key
                    b == flat.object[j].key
                IN  IF IsArrayIndex(a) /\ IsArrayIndex(b) THEN ArrayIndex[a] < ArrayIndex[b]
                    ELSE IF IsArrayIndex(a) \/ IsArrayIndex(b) THEN IsArrayIndex(a)
                    ELSE FirstOccurrence(flat.input, a) < FirstOccurrence(flat.input, b)

C13_Witness ==
    /\ flat.pc = "returned"
    /\ flat.input = <<<<"toString", "x">>, <<"10", "5">>, <<"2", "5">>>>
    /\ [i \in 1..Len(flat.object) |-> flat.object[i].key] = <<"2", "10", "toString">>

\* C14 as claimed: formDataToObject is idempotent under re-flattening: a form
\* rebuilt from its output (each key's scalar, or each element of its
\* sequence in order, appended key by key) flattens to a mapping equal to the
\* first output.
C14_ReflatteningIsIdempotent ==
    flat.pc = "returned again" => flat.object = flat.first

\* C15: a ZodValidate-wrapped call reads the form body only from a clone of
\* event.request: once the body has been read, on the success path and on
\* the failure path alike, the body of the request itself is unconsumed, and
\* it is unconsumed when the original method starts.
C15_ReadsOnlyTheClone ==
    /\ \A cd \in WrapperFrames("ZodValidate") :
          FrameOf(cd).formDataCalls > 0
          => /\ FrameOf(cd).cloneCalls = FrameOf(cd).formDataCalls
             /\ ~calls[cd[1]].event.bodyUsed
             /\ OriginalOf(cd).entered > 0 => ~OriginalOf(cd).seenBodyUsed
    /\ \A c \in CallIds :
          calls[c].status # "idle"
          => LET Read(d) == calls[c].frames[d].formDataCalls
                 RECURSIVE Sum(_)
                 Sum(d) == IF d = 0 THEN 0 ELSE Read(d) + Sum(d - 1)
             IN  calls[c].event.clones = Sum(Len(calls[c].frames))

C15_Witness ==
    \E cd \in WrapperFrames("ZodValidate") :
        /\ calls[cd[1]].status = "done"
        /\ FrameOf(cd).parsed /\ FrameOf(cd).result.success
        /\ calls[cd[1]].event.clones = 1
        /\ ~calls[cd[1]].event.bodyUsed
        /\ OriginalOf(cd).entered = 1 /\ ~OriginalOf(cd).seenBodyUsed
        /\ calls[cd[1]].outcome.k = "return"

\* --force is among the arguments of the run.
Forced == \E i \in 1..Len(proc.argv) : proc.argv[i] = ForceFlag

\* The class name the run was given or took from the destination.
NameOfRun == parseOptions(Tail(proc.argv)).name

\* The template's text with the run's class name in it (the name Controller
\* leaves the template's own class name).
TemplateContent ==
    [text |-> proc.template.text,
     class |-> IF NameOfRun = "Controller" THEN proc.template.class ELSE NameOfRun]

\* C16: make:controller overwrites an existing destination file only when
\* --force is given.  After a run that resolved its destination: if the
\* destination file existed and --force was absent, the exit status is 3 and
\* the file's content is what it was; otherwise the destination file holds
\* the template content.
C16_OverwritesOnlyWhenForced ==
    (proc.ran /\ proc.reached)
    => IF proc.existed /\ ~Forced
       THEN /\ proc.status = 3
            /\ proc.destPath \in DOMAIN files
            /\ files[proc.destPath] = proc.before
       ELSE /\ proc.status = 0
            /\ proc.destPath \in DOMAIN files
            /\ files[proc.destPath] = TemplateContent

\* An existing file written from the package's template is left alone by an
\* unforced run that would have written the project's template.
C16_Witness ==
    /\ proc.ran /\ proc.reached /\ proc.existed /\ ~Forced
    /\ proc.status = 3
    /\ proc.template = UserTemplate
    /\ files[proc.destPath] = Content(PackageTemplate.text, "UserController")

\* The Check frames whose predicate returned no value (undefined).
ReturnedNothing ==
    {cd \in WrapperFrames("Check") :
        HasCheck(LayerOf(cd)) /\ FrameOf(cd).checkResult = Return(Undefined)}

C18_PredicateOnceAndAwaited ==
    \A cd \in WrapperFrames("Check") :
        HasCheck(LayerOf(cd)) =>
            LET f == FrameOf(cd)
                call == calls[cd[1]]
                entering == call.status = "running" /\ call.depth = cd[2] /\ call.pc = "enter"
                awaiting == call.status = "running" /\ call.depth = cd[2] /\ call.pc = "awaitCheck"
            IN  /\ f.checkCalls = IF entering THEN 0 ELSE 1
                /\ ~entering => f.checkArgs = <<FirstArg(f.args)>>
                /\ awaiting => (f.checkResult = None /\ OriginalOf(cd).entered = 0)
                /\ OriginalOf(cd).entered > 0 => f.checkResult = Return(JsTrue)
                /\ (~entering /\ ~awaiting) =>
                      /\ f.checkResult = f.checkReturned.settle
                      /\ f.checkReturned.settle = Return(JsTrue) => f.originalCalls = 1
                      /\ f.checkReturned.settle # Return(JsTrue) => f.originalCalls = 0

C18_Witness ==
    \E cd \in WrapperFrames("Check") :
        /\ cd[2] = 1 /\ calls[cd[1]].status = "done"
        /\ FrameOf(cd).checkCalls = 1
        /\ FrameOf(cd).checkReturned = [promise |-> TRUE, settle |-> Return(JsTrue)]
        /\ FrameOf(cd).args = <<EventRef(cd[1]), Str("extra"), Num(42)>>
        /\ FrameOf(cd).checkArgs = <<EventRef(cd[1])>>
        /\ OriginalOf(cd).entered = 1
        /\ calls[cd[1]].outcome.k = "return"

MixedStackCalls ==
    {c \in CallIds :
        /\ calls[c].status # "idle" /\ ~calls[c].construct
        /\ calls[c].member.name = publicMethod1
        /\ \A i \in 1..Len(applied) : applied[i].propertyKey = publicMethod1
        /\ \E i, j \in 1..Len(applied) :
              /\ applied[i].kind = "Check" /\ applied[i].check # NoCheck
              /\ applied[j].kind = "ZodValidate"}

\* C20: when a Check guard and a ZodValidate wrapper are stacked on one
\* method, the outer (top-listed) one runs first and its rejection leaves the
\* inner one's effects undone.  A guard whose predicate resolved to a value
\* other than true: no validation below it has cloned or read the request or
\* called onFailure, and event.locals.validated is what it was when the guard
\* started (with the guard outermost: never set, and the body never read).
\* A validation whose schema rejected the form: no guard below it has invoked
\* its predicate.
C20_OuterRejectionSkipsInner ==
    \A c \in MixedStackCalls :
        LET call == calls[c]
            n == Len(applied)
        IN  /\ Len(Layers(call)) = n
            /\ \A d \in 1..n : Layers(call)[d].kind = applied[n + 1 - d].kind
            /\ \A d \in 1..n :
                  /\ (Layers(call)[d].kind = "Check" /\ d \in Stops(call))
                     => /\ \A e \in (d + 1)..(n + 1) :
                              /\ call.frames[e].entered = 0
                              /\ call.frames[e].cloneCalls = 0
                              /\ call.frames[e].formDataCalls = 0
                              /\ call.frames[e].onFailureCalls = 0
                        /\ call.event.validated = call.frames[d].seenValidated
                        /\ d = 1 => (/\ call.event.validated = Undefined
                                     /\ call.event.clones = 0
                                     /\ call.event.body = None)
                  /\ (/\ Layers(call)[d].kind = "ZodValidate"
                      /\ call.frames[d].entered > 0 /\ Rejected(<<c, d>>))
                     => \A e \in (d + 1)..(n + 1) :
                           call.frames[e].entered = 0 /\ call.frames[e].checkCalls = 0

C20_Witness ==
    \E c \in MixedStackCalls :
        /\ calls[c].status = "done"
        /\ Len(applied) = 2
        /\ applied[1].kind = "ZodValidate" /\ applied[1].onFailure = "onFailureCallback"
        /\ applied[2].kind = "Check"
        /\ Layers(calls[c])[1].kind = "Check"
        /\ calls[c].frames[1].checkCalls = 1
        /\ calls[c].frames[1].checkResult = Return(fail(401, Str("Unauthorized")))
        /\ calls[c].frames[2].entered = 0
        /\ calls[c].event = NewEvent
        /\ calls[c].outcome = Return(fail(401, Str("Unauthorized")))

\* The calls of a method on an instance of DerivedClass.
DerivedCalls ==
    {c \in CallIds :
        /\ calls[c].status # "idle" /\ ~calls[c].construct
        /\ calls[c].self = Instance("DerivedClass")}

\* C21: class-mode Check wraps only the methods defined directly on the
\* decorated class.  A call of DerivedClass's own publicMethod2, which
\* overrides BaseClass's, goes through the wrappers of DerivedClass's own
\* decorations only, so through none when only BaseClass is decorated; a call
\* of a method DerivedClass merely inherits goes through no wrapper that a
\* decoration of DerivedClass installed.
C21_ClassModeWrapsOwnMethodsOnly ==
    \A c \in DerivedCalls :
        LET call == calls[c] IN
        IF call.member.name \in DOMAIN ClassBody("DerivedClass")
        THEN /\ call.member.home = "DerivedClass"
             /\ Len(Layers(call)) = Cardinality(ClassDecorations("DerivedClass"))
             /\ \A d \in 1..Len(Layers(call)) :
                   Layers(call)[d].on = "DerivedClass" /\ Layers(call)[d].mode = "class"
             /\ BodyFrame(call).out # None =>
                   BodyFrame(call).out \in
                      BodyOutcomes(Method("DerivedClass", call.member.name), call.self, call.args)
        ELSE /\ call.member.home = "BaseClass"
             /\ \A d \in 1..Len(Layers(call)) : Layers(call)[d].on = "BaseClass"

\* BaseClass is decorated with Check(A); the override runs unguarded.
C21_Witness ==
    \E c \in DerivedCalls :
        /\ calls[c].status = "done"
        /\ calls[c].member.name = publicMethod2
        /\ Len(applied) = 1 /\ ClassDecorations("BaseClass") = {1} /\ applied[1].check = "A"
        /\ Layers(calls[c]) = <<>>
        /\ calls[c].frames[1].entered = 1 /\ calls[c].frames[1].checkCalls = 0
        /\ calls[c].outcome =
              Return([t |-> "result", home |-> "DerivedClass", name |-> publicMethod2,
                      self |-> Instance("DerivedClass"), args |-> calls[c].args])

\* The calls of BaseClass's publicMethod1 when BaseClass is decorated with
\* Check and publicMethod1 is decorated with Check as well, both with a
\* predicate.
ClassAndMethodGuardCalls ==
    {c \in CallIds :
        /\ calls[c].status # "idle" /\ ~calls[c].construct
        /\ calls[c].member.home = "BaseClass" /\ calls[c].member.name = publicMethod1
        /\ \E i \in ClassDecorations("BaseClass") : applied[i].check # NoCheck
        /\ \E i \in 1..Len(applied) :
              /\ applied[i].kind = "Check" /\ applied[i].check # NoCheck
              /\ applied[i].propertyKey = publicMethod1}

\* C23: when a class is decorated with Check(A) and one of its methods with
\* Check(B), a call of that method invokes A first and B second, each at
\* most once: the class's wrapper is above the method's, and B is invoked
\* only after A resolved to true.  If A resolves to another value, B and the
\* original method are never invoked and the call returns A's value.
C23_ClassGuardBeforeMethodGuard ==
    \A c \in ClassAndMethodGuardCalls :
        LET call == calls[c]
            n == Len(Layers(call))
            ofClass == {d \in 1..n : Layers(call)[d].kind = "Check" /\ Layers(call)[d].mode = "class"}
            ofMethod == {d \in 1..n : Layers(call)[d].kind = "Check" /\ Layers(call)[d].mode = "method"}
        IN  /\ Cardinality(ofClass) = Cardinality(ClassDecorations("BaseClass"))
            /\ ofMethod # {}
            /\ \A d \in ofClass, e \in ofMethod :
                  /\ d < e
                  /\ call.frames[d].checkCalls <= 1 /\ call.frames[e].checkCalls <= 1
                  /\ (Layers(call)[d].check # NoCheck /\ call.frames[e].checkCalls > 0)
                     => /\ call.frames[d].checkCalls = 1
                        /\ call.frames[d].checkResult = Return(JsTrue)
                  /\ d \in Stops(call)
                     => /\ call.frames[e].entered = 0 /\ call.frames[e].checkCalls = 0
                        /\ BodyFrame(call).entered = 0
                        /\ call.status = "done"
                           => call.outcome = Return(call.frames[d].checkResult.v)

C23_Witness ==
    \E c \in ClassAndMethodGuardCalls :
        /\ calls[c].status = "done"
        /\ Len(applied) = 2
        /\ applied[1].propertyKey = publicMethod1 /\ applied[1].check = "A"
        /\ applied[2].propertyKey = <<>> /\ applied[2].check = "B"
        /\ Layers(calls[c])[1].mode = "class" /\ Layers(calls[c])[1].check = "B"
        /\ calls[c].frames[1].checkCalls = 1
        /\ calls[c].frames[1].checkResult = Return(JsFalse)
        /\ calls[c].frames[2].entered = 0 /\ calls[c].frames[2].checkCalls = 0
        /\ calls[c].frames[3].entered = 0
        /\ calls[c].outcome = Return(JsFalse)

\* The ZodValidate frames whose onFailure callback threw when it was called.
CallbackThrew ==
    {cd \in WrapperFrames("ZodValidate") :
        /\ FrameOf(cd).onFailureCalls > 0
        /\ ~FrameOf(cd).onFailureOutcome.promise
        /\ FrameOf(cd).onFailureOutcome.settle.k = "throw"}

\* C24: if the onFailure callback of ZodValidate throws, the call fails with
\* that error and does not return the 422 failure value;
\* event.locals.validated was null already when the callback was called, and
\* the original method is not invoked.
C24_ThrowingCallbackFailsTheCall ==
    \A cd \in CallbackThrew :
        /\ SettledWith(cd, Throw(FrameOf(cd).onFailureOutcome.settle.e))
        /\ FrameOf(cd).onFailureSeen = Null
        /\ calls[cd[1]].event.validated = Null
        /\ NeverInvokesOriginal(cd)

C24_Witness ==
    \E cd \in CallbackThrew :
        /\ cd[2] = 1 /\ calls[cd[1]].status = "done"
        /\ Rejected(cd)
        /\ FrameOf(cd).onFailureSeen = Null
        /\ OriginalOf(cd).entered = 0
        /\ calls[cd[1]].outcome = Throw(Error("onFailure failed"))

\* Whether the wrapper frame cd lets its call through to the layer below, by
\* what the frame itself was given: the predicate's settlement, or the form
\* it read.
LayerPasses(cd) ==
    IF LayerOf(cd).kind = "Check"
    THEN \/ LayerOf(cd).check = NoCheck
         \/ /\ FrameOf(cd).checkCalls > 0
            /\ FrameOf(cd).checkReturned.settle = Return(JsTrue)
    ELSE FrameOf(cd).parsed /\ FrameOf(cd).result.success

\* What the wrapper frame cd answers when it does not let its call through.
LayerAnswer(cd) ==
    LET f == FrameOf(cd) IN
    IF LayerOf(cd).kind = "Check"
    THEN f.checkReturned.settle
    ELSE IF FirstArg(f.args).t # "event" THEN Throw(Error("TypeError"))
    ELSE IF f.transport # None THEN f.transport
    ELSE IF cd \in CallbackThrew THEN Throw(f.onFailureOutcome.settle.e)
    ELSE Return(Expected422(cd))

\* The layers of call c that stop it, and the outcome call c has when it
\* runs alone with the inputs it was given.
StoppingLayers(c) == {d \in 1..Len(Layers(calls[c])) : ~LayerPasses(<<c, d>>)}

OutcomeAlone(c) ==
    IF StoppingLayers(c) = {}
    THEN BodyFrame(calls[c]).out
    ELSE LayerAnswer(<<c, CHOOSE d \in StoppingLayers(c) : \A e \in StoppingLayers(c) : d <= e>>)

\* event.locals.validated of call c when it runs alone: what the innermost
\* ZodValidate layer that has parsed a form made of that form.
ParsedLayers(c) ==
    {d \in 1..Len(Layers(calls[c])) :
        Layers(calls[c])[d].kind = "ZodValidate" /\ calls[c].frames[d].parsed}

ValidatedAlone(c) ==
    IF ParsedLayers(c) = {}
    THEN Undefined
    ELSE LET d == CHOOSE d \in ParsedLayers(c) : \A e \in ParsedLayers(c) : e <= d
             result == calls[c].frames[d].result
         IN  IF result.success THEN result.data ELSE Null

\* The bodies call c has read of clones of its own request.
ReadsAlone(c) ==
    Cardinality({d \in 1..Len(Layers(calls[c])) : calls[c].frames[d].formDataCalls > 0})

\* C22: of two interleaved calls of decorated methods with distinct context
\* objects, each has the outcome it has alone: the predicate result it uses
\* is the one its own predicate gave for its own context, the handler runs
\* exactly when its own layers let it through, the value returned and the
\* final event.locals.validated are those its own inputs determine, and what
\* it reads of and writes to a context is its own context only.
C22_InterleavedCallsAreIndependent ==
    \A c \in CallIds :
        LET call == calls[c] IN
        /\ call.status = "idle" => call.event = NewEvent
        /\ call.status # "idle" =>
              /\ call.event.validated = ValidatedAlone(c)
              /\ call.event.clones = ReadsAlone(c)
              /\ call.event.bodyUsed = FALSE
              /\ \A d \in 1..Len(Layers(call)) :
                    LET f == call.frames[d] IN
                    /\ f.checkCalls > 0
                       => /\ f.checkArgs = <<FirstArg(call.args)>>
                          /\ f.checkResult \in {None, f.checkReturned.settle}
                    /\ f.onFailureCalls > 0
                       => /\ f.onFailureArgs[1] = FirstArg(call.args)
                          /\ f.onFailureSeen = Null
                    /\ f.entered > 0 /\ d > 1
                       => f.seenValidated = call.frames[d - 1].seenValidated
                              \/ call.frames[d - 1].parsed
              /\ BodyFrame(call).entered > 0
                 => BodyFrame(call).seenValidated = ValidatedAlone(c)
        /\ call.status = "done" =>
              /\ call.outcome = OutcomeAlone(c)
              /\ BodyFrame(call).entered = IF StoppingLayers(c) = {} THEN 1 ELSE 0

\* Call 2 has returned the 422 value of its rejected form, with null in its
\* event.locals.validated, while call 1, started before it, still awaits
\* its form and has nothing in its own.
C22_Witness ==
    /\ calls[1].status = "running" /\ calls[1].pc = "awaitFormData"
    /\ calls[1].args = <<EventRef(1), Str("extra"), Num(42)>>
    /\ calls[1].event.validated = Undefined
    /\ calls[2].status = "done"
    /\ calls[2].args = <<EventRef(2), Str("extra"), Num(42)>>
    /\ Rejected(<<2, 1>>)
    /\ calls[2].event.validated = Null
    /\ calls[2].outcome = Return(Expected422(<<2, 1>>))

====
